---- MODULE Spec2Model ----
(***************************************************************************)
(* A model of git-patchstat.py: the commit pass of parse_git_commits with  *)
(* its metadata cache, the end of main (report, save_cache), the trailer   *)
(* regular expression and the MAINTAINERS block parser.                    *)
(*                                                                         *)
(* Python strings are sequences of one-character strings, so that lower(), *)
(* strip(), startswith(), the substring test and the regular expression    *)
(* are computed character by character.                                    *)
(***************************************************************************)
EXTENDS Integers, Sequences, FiniteSets, TLC

VARIABLES
    \* ---- one run of main() ----
    pc,                  \* where main() is
    name,                \* args.name
    verbosity,           \* args.verbose
    dir_depth,           \* args.dir_depth
    commits,             \* list(repo.iter_commits("--all"))
    disk,                \* the cache file: [exists, content]
    disk0,               \* the cache file as it was when the run started
    cache,               \* main's cache dict (sha -> entry)
    new_cache,           \* parse_git_commits' new_cache dict
    idx,                 \* number of commits the for loop has processed
    meta,                \* sha, author, email, message, year of line 111
    contributions,       \* contributions[tag][year]
    all_years,
    min_year,            \* <<>> is None, <<y>> is the year y
    email_usage,         \* email_usage[email]: set of years
    email_author_counts, \* email_author_counts[email]
    dir_commits,         \* dir_commits[top_dir]
    dir_files,           \* dir_files[top_dir]: set of paths
    seen_files,
    years,               \* the sorted years list main receives
    cache_updated,       \* the flag main receives
    out,                 \* what main printed: "", "none", "report"
    saves,               \* number of calls of save_cache in this run
    \* ---- the trailer scan on its own ----
    scan_name, scan_msg, scan_done, scan_counts,
    \* ---- process_block on its own ----
    blk_name, block, blk_done, blk_result

runVars == <<pc, name, verbosity, dir_depth, commits, disk, disk0, cache,
             new_cache, idx, meta, contributions, all_years, min_year, email_usage,
             email_author_counts, dir_commits, dir_files, seen_files, years,
             cache_updated, out, saves>>
scanVars == <<scan_name, scan_msg, scan_done, scan_counts>>
blkVars == <<blk_name, block, blk_done, blk_result>>
vars == <<runVars, scanVars, blkVars>>

(***************************************************************************)
(* Strings                                                                 *)
(***************************************************************************)

\* str.lower() on one character
LowerCh(c) ==
    CASE c = "A" -> "a" [] c = "B" -> "b" [] c = "C" -> "c" [] c = "D" -> "d"
      [] c = "E" -> "e" [] c = "F" -> "f" [] c = "G" -> "g" [] c = "H" -> "h"
      [] c = "I" -> "i" [] c = "J" -> "j" [] c = "K" -> "k" [] c = "L" -> "l"
      [] c = "M" -> "m" [] c = "N" -> "n" [] c = "O" -> "o" [] c = "P" -> "p"
      [] c = "Q" -> "q" [] c = "R" -> "r" [] c = "S" -> "s" [] c = "T" -> "t"
      [] c = "U" -> "u" [] c = "V" -> "v" [] c = "W" -> "w" [] c = "X" -> "x"
      [] c = "Y" -> "y" [] c = "Z" -> "z" [] OTHER -> c

\* str.lower()
Lower(s) == [k \in 1..Len(s) |-> LowerCh(s[k])]

\* Python's "sub in s"
In(sub, s) ==
    \E p \in 0..(Len(s) - Len(sub)) : \A k \in 1..Len(sub) : s[p + k] = sub[k]

\* s.startswith(prefix)
StartsWith(s, prefix) ==
    /\ Len(prefix) <= Len(s)
    /\ \A k \in 1..Len(prefix) : s[k] = prefix[k]

\* the characters str.strip() removes and \s matches
IsSpace(c) == c \in {" ", "\t", "\n", "\r"}

\* str.strip()
Strip(s) ==
    LET keep == {k \in 1..Len(s) : ~IsSpace(s[k])}
    IN  IF keep = {} THEN <<>>
        ELSE LET lo == CHOOSE k \in keep : \A j \in keep : k <= j
                 hi == CHOOSE k \in keep : \A j \in keep : k >= j
             IN  SubSeq(s, lo, hi)

\* s[n:]
From(s, n) == SubSeq(s, n + 1, Len(s))

(***************************************************************************)
(* Constants of the program                                                *)
(***************************************************************************)

LINUX_TAGS == <<"Signed-off-by", "Acked-by", "Reviewed-by",
                "Reported-by", "Tested-by", "Cc", "Co-developed-by">>

DISPLAY_TAGS == <<"Author", "Co-developed-by", "Signed-off-by", "Acked-by",
                  "Reviewed-by", "Reported-by", "Tested-by", "Cc", "Merges">>

\* the characters of a tag name
Chars(tag) ==
    CASE tag = "Signed-off-by" -> <<"S","i","g","n","e","d","-","o","f","f","-","b","y">>
      [] tag = "Acked-by" -> <<"A","c","k","e","d","-","b","y">>
      [] tag = "Reviewed-by" -> <<"R","e","v","i","e","w","e","d","-","b","y">>
      [] tag = "Reported-by" -> <<"R","e","p","o","r","t","e","d","-","b","y">>
      [] tag = "Tested-by" -> <<"T","e","s","t","e","d","-","b","y">>
      [] tag = "Cc" -> <<"C","c">>
      [] tag = "Co-developed-by" -> <<"C","o","-","d","e","v","e","l","o","p","e","d","-","b","y">>

Range(s) == {s[k] : k \in 1..Len(s)}

(***************************************************************************)
(* The trailer regular expression: re.findall(pattern, message,            *)
(* re.IGNORECASE) with pattern = rf"{tag}:\s+.*{re.escape(name)}.*"        *)
(***************************************************************************)

\* the characters re.escape puts a backslash before
RE_SPECIAL == {"(", ")", "[", "]", "{", "}", "?", "*", "+", "-", "|", "^", "$",
               "\\", ".", "&", "~", "#", " ", "\t", "\n", "\r"}

RECURSIVE re_escape(_)
re_escape(s) ==
    IF s = <<>> THEN <<>>
    ELSE (IF Head(s) \in RE_SPECIAL THEN <<"\\", Head(s)>> ELSE <<Head(s)>>)
         \o re_escape(Tail(s))

\* the pattern string of one tag
TagPattern(tag, nm) ==
    Chars(tag) \o <<":", "\\", "s", "+", ".", "*">> \o re_escape(nm) \o <<".", "*">>

\* re.compile: the pattern string as a sequence of atoms, each with its
\* quantifier ("1": exactly once, "+", "*")
RECURSIVE re_compile(_, _)
re_compile(p, i) ==
    IF i > Len(p) THEN <<>>
    ELSE LET esc == p[i] = "\\" /\ i < Len(p)
             w == IF esc THEN 2 ELSE 1
             atom == IF esc
                     THEN IF p[i + 1] = "s" THEN [cls |-> "space", ch |-> " "]
                          ELSE [cls |-> "lit", ch |-> p[i + 1]]
                     ELSE IF p[i] = "." THEN [cls |-> "dot", ch |-> "."]
                          ELSE [cls |-> "lit", ch |-> p[i]]
             quant == IF i + w <= Len(p) /\ p[i + w] \in {"*", "+"}
                      THEN p[i + w] ELSE "1"
             used == IF quant = "1" THEN w ELSE w + 1
         IN  <<[cls |-> atom.cls, ch |-> atom.ch, q |-> quant]>>
             \o re_compile(p, i + used)

\* one atom against one character, under re.IGNORECASE and without re.DOTALL
AtomMatches(a, c) ==
    CASE a.cls = "lit" -> LowerCh(c) = LowerCh(a.ch)
      [] a.cls = "space" -> IsSpace(c)
      [] a.cls = "dot" -> c /= "\n"

\* how many characters from s[i] on the atom matches in a row
AtomRun(a, s, i) ==
    CHOOSE n \in 0..(Len(s) - i + 1) :
        /\ \A k \in 0..(n - 1) : AtomMatches(a, s[i + k])
        /\ (i + n <= Len(s) => ~AtomMatches(a, s[i + n]))

\* the backtracking matcher: the index after the match of pat[j..] that starts
\* at s[i], the one the greedy search finds first; 0 when there is none
RECURSIVE MatchFrom(_, _, _, _), TryRep(_, _, _, _, _)
MatchFrom(pat, j, s, i) ==
    IF j > Len(pat) THEN i
    ELSE IF pat[j].q = "1"
         THEN IF i <= Len(s) /\ AtomMatches(pat[j], s[i])
              THEN MatchFrom(pat, j + 1, s, i + 1)
              ELSE 0
         ELSE TryRep(pat, j, s, i, AtomRun(pat[j], s, i))

TryRep(pat, j, s, i, n) ==
    IF n < (IF pat[j].q = "+" THEN 1 ELSE 0) THEN 0
    ELSE LET e == MatchFrom(pat, j + 1, s, i + n)
         IN  IF e /= 0 THEN e ELSE TryRep(pat, j, s, i, n - 1)

\* len(re.findall(...)): the non-overlapping matches, scanning left to right
RECURSIVE FindAllFrom(_, _, _)
FindAllFrom(pat, s, i) ==
    IF i > Len(s) + 1 THEN 0
    ELSE LET e == MatchFrom(pat, 1, s, i)
         IN  IF e = 0 THEN FindAllFrom(pat, s, i + 1)
             ELSE 1 + FindAllFrom(pat, s, IF e = i THEN i + 1 ELSE e)

\* the identities queried in this development
Identities == {<<"j">>, <<".">>}

\* the re module's cache of compiled patterns
re_cache ==
    [nm \in Identities, tag \in Range(LINUX_TAGS) |-> re_compile(TagPattern(tag, nm), 1)]

\* len(matches) for one tag of the loop at lines 148-150
TagMatches(tag, nm, message) == FindAllFrom(re_cache[nm, tag], message, 1)

\* the loop of lines 148-150 over the tags: len(matches) of each tag, in the
\* order of LINUX_TAGS
RECURSIVE ScanTagsOf(_, _, _)
ScanTagsOf(tags, nm, message) ==
    IF tags = <<>> THEN <<>>
    ELSE <<TagMatches(Head(tags), nm, message)>> \o ScanTagsOf(Tail(tags), nm, message)

ScanCounts(nm, message) == ScanTagsOf(LINUX_TAGS, nm, message)


NoCounts == [k \in 1..Len(LINUX_TAGS) |-> 0]

\* lines 148-153 applied to one message
ScanTags ==
    /\ ~scan_done
    /\ scan_done' = TRUE
    /\ scan_counts' = ScanCounts(scan_name, scan_msg)
    /\ UNCHANGED <<scan_name, scan_msg, runVars, blkVars>>

(***************************************************************************)
(* process_block                                                           *)
(***************************************************************************)

\* the state of process_block before the loop (lines 192-199); <<>> is None
BlockStart ==
    [title |-> <<>>, maintainers |-> <<>>, reviewers |-> <<>>, file_globs |-> <<>>,
     matched_line |-> <<>>, role |-> "None"]

\* the role an M: line that names the identity gives (line 208)
RoleAfterM(role) == "maintainer"

\* the role an R: line that names the identity gives (line 213)
RoleAfterR(role) == IF role /= "maintainer" THEN "reviewer" ELSE "both"

\* one iteration of the loop over the lines (lines 201-215)
BlockLine(st, line, name_lower) ==
    IF ~(StartsWith(line, <<" ">>) \/ StartsWith(line, <<"\t">>)) /\ st.title = <<>>
    THEN [st EXCEPT !.title = Strip(line)]
    ELSE IF StartsWith(line, <<"M", ":">>)
    THEN [st EXCEPT
            !.maintainers = Append(@, Strip(From(line, 2))),
            !.matched_line = IF In(name_lower, Lower(line)) THEN Strip(line) ELSE @,
            !.role = IF In(name_lower, Lower(line)) THEN RoleAfterM(@) ELSE @]
    ELSE IF StartsWith(line, <<"R", ":">>)
    THEN [st EXCEPT
            !.reviewers = Append(@, Strip(From(line, 2))),
            !.matched_line = IF In(name_lower, Lower(line)) THEN Strip(line) ELSE @,
            !.role = IF In(name_lower, Lower(line)) THEN RoleAfterR(@) ELSE @]
    ELSE IF StartsWith(line, <<"F", ":">>)
    THEN [st EXCEPT !.file_globs = Append(@, Strip(From(line, 2)))]
    ELSE st

RECURSIVE BlockLoop(_, _, _)
BlockLoop(st, lines, name_lower) ==
    IF lines = <<>> THEN st
    ELSE BlockLoop(BlockLine(st, Head(lines), name_lower), Tail(lines), name_lower)

Unknown == <<"<", "u", "n", "k", "n", "o", "w", "n", ">">>
NoneResult == [ret |-> "None"]

\* process_block(block, name)
process_block(lines, nm) ==
    LET st == BlockLoop(BlockStart, lines, Lower(nm))
    IN  IF st.matched_line /= <<>>
        THEN [ret |-> "dict",
              subsystem |-> IF st.title /= <<>> THEN st.title ELSE Unknown,
              role |-> st.role, matched_line |-> st.matched_line,
              maintainers |-> st.maintainers, reviewers |-> st.reviewers,
              files |-> st.file_globs]
        ELSE NoneResult

\* find_community_responsibilities hands one block to process_block
ProcessBlock ==
    /\ ~blk_done
    /\ blk_done' = TRUE
    /\ blk_result' = process_block(block, blk_name)
    /\ UNCHANGED <<blk_name, block, runVars, scanVars>>

(***************************************************************************)
(* Dictionaries                                                            *)
(***************************************************************************)

EmptyDict == [k \in {} |-> 0]

\* d.get(k, default), and what a defaultdict gives for a missing key
Get(d, k, default) == IF k \in DOMAIN d THEN d[k] ELSE default

\* d[k] = v
Put(d, k, v) == [x \in DOMAIN d \cup {k} |-> IF x = k THEN v ELSE d[x]]

\* d.update(e)
Update(d, e) == [x \in DOMAIN d \cup DOMAIN e |-> IF x \in DOMAIN e THEN e[x] ELSE d[x]]

\* sorted(S) of a set of integers
RECURSIVE Sorted(_)
Sorted(S) ==
    IF S = {} THEN <<>>
    ELSE LET m == CHOOSE x \in S : \A y \in S : x <= y
         IN  <<m>> \o Sorted(S \ {m})

(***************************************************************************)
(* The cache file                                                          *)
(***************************************************************************)

\* json.dump(cache, f): the text written, token by token
RECURSIVE DumpEntries(_, _)
DumpEntries(c, keys) ==
    IF keys = {} THEN <<>>
    ELSE LET k == CHOOSE x \in keys : \A y \in keys : x <= y
         IN  <<(<<"entry", k, c[k]>>)>> \o DumpEntries(c, keys \ {k})

json_dump(c) == <<(<<"{">>)>> \o DumpEntries(c, DOMAIN c) \o <<(<<"}">>)>>

\* whether json.load accepts the text (it raises JSONDecodeError otherwise)
WellFormed(text) ==
    /\ Len(text) >= 2
    /\ text[1] = <<"{">>
    /\ text[Len(text)] = <<"}">>
    /\ \A k \in 2..(Len(text) - 1) : Len(text[k]) = 3

\* json.load(f) of a well-formed text
json_load(text) ==
    LET ks == {text[k][2] : k \in 2..(Len(text) - 1)}
    IN  [sha \in ks |-> (CHOOSE t \in Range(text) : Len(t) = 3 /\ t[2] = sha)[3]]

NoFile == [exists |-> FALSE, content |-> <<>>]
FileOf(c) == [exists |-> TRUE, content |-> json_dump(c)]

\* load_cache: [ok, cache]; ok is FALSE when json.load raises
load_cache(d) ==
    IF ~d.exists THEN [ok |-> TRUE, cache |-> EmptyDict]
    ELSE IF WellFormed(d.content) THEN [ok |-> TRUE, cache |-> json_load(d.content)]
    ELSE [ok |-> FALSE, cache |-> EmptyDict]

(***************************************************************************)
(* get_commit_metadata                                                     *)
(***************************************************************************)

\* the entry built on a cache miss (lines 67-77)
FreshEntry(commit) ==
    [author_name |-> commit.author, author_email |-> commit.email,
     message |-> commit.message, year |-> commit.year]

\* get_commit_metadata without the cache test of line 64
get_commit_metadata_Refresh(commit, c, nc) ==
    [entry |-> FreshEntry(commit),
     new_cache |-> Put(nc, commit.sha, FreshEntry(commit))]

\* [entry, new_cache]: the entry returned and new_cache after the call
get_commit_metadata(commit, c, nc) ==
    IF commit.sha \in DOMAIN c
    THEN [entry |-> c[commit.sha], new_cache |-> nc]
    ELSE [entry |-> FreshEntry(commit),
          new_cache |-> Put(nc, commit.sha, FreshEntry(commit))]

(***************************************************************************)
(* The body of the for loop of parse_git_commits                           *)
(***************************************************************************)

\* line 112
AuthorMatch(nm, author, email) ==
    In(Lower(nm), Lower(author)) \/ In(Lower(nm), Lower(email))

\* lines 114-115: the commit takes the merge branch, which ends in continue
MergeBranch(author_match, parents) == author_match /\ parents > 1

Bump(c, tag, year, n) == [c EXCEPT ![tag][year] = @ + n]

\* lines 151-153 for every tag, counts being the len(matches) of each
RECURSIVE AddTags(_, _, _, _)
AddTags(c, k, year, counts) ==
    IF k > Len(LINUX_TAGS) THEN c
    ELSE AddTags(IF counts[k] > 0 THEN Bump(c, LINUX_TAGS[k], year, counts[k]) ELSE c,
                 k + 1, year, counts)

\* the iteration without the continue of line 119
ContributionsAfter_NoContinue(c, author_match, parents, year, counts) ==
    AddTags(IF ~author_match THEN c
            ELSE IF parents > 1 THEN Bump(c, "Merges", year, 1)
            ELSE Bump(c, "Author", year, 1),
            1, year, counts)

\* contributions after one iteration
ContributionsAfter(c, author_match, parents, year, counts) ==
    IF MergeBranch(author_match, parents)
    THEN Bump(c, "Merges", year, 1)
    ELSE AddTags(IF author_match THEN Bump(c, "Author", year, 1) ELSE c,
                 1, year, counts)

\* tag_match when line 155 is reached
TagMatch(author_match, counts) ==
    author_match \/ \E k \in 1..Len(counts) : counts[k] > 0

\* whether the iteration reaches line 156: the merge branch has left the
\* iteration before
YearCounted(author_match, parents, counts) ==
    /\ ~MergeBranch(author_match, parents)
    /\ (TagMatch(author_match, counts) \/ author_match)

\* lines 157-158
MinYearAfter(my, year) == IF my = <<>> \/ year < my[1] THEN <<year>> ELSE my

(***************************************************************************)
(* Directory statistics (lines 126-146)                                    *)
(***************************************************************************)

\* path.split("/")
RECURSIVE Split(_)
Split(path) ==
    IF \A k \in 1..Len(path) : path[k] /= "/" THEN <<path>>
    ELSE LET p == CHOOSE k \in 1..Len(path) :
                      path[k] = "/" /\ \A j \in 1..(k - 1) : path[j] /= "/"
         IN  <<SubSeq(path, 1, p - 1)>> \o Split(SubSeq(path, p + 1, Len(path)))

\* "/".join(parts)
RECURSIVE Join(_)
Join(parts) ==
    IF parts = <<>> THEN <<>>
    ELSE IF Len(parts) = 1 THEN parts[1]
    ELSE parts[1] \o <<"/">> \o Join(Tail(parts))

Min(a, b) == IF a < b THEN a ELSE b

\* lines 132-135
TopDir(path, depth) ==
    LET parts == Split(path)
        dirs == SubSeq(parts, 1, Len(parts) - 1)
        d == Min(Len(dirs), depth)
    IN  IF dirs /= <<>> THEN Join(SubSeq(dirs, 1, d)) ELSE <<".">>

\* lines 130-136: touched_dirs
TouchedDirs(files, depth) == {TopDir(p, depth) : p \in files}

\* the counter raised in the loop over the files, once per file
DirCommitsAfter_PerFile(dc, files, depth) ==
    [d \in DOMAIN dc \cup TouchedDirs(files, depth) |->
        Get(dc, d, 0) + Cardinality({p \in files : TopDir(p, depth) = d})]

\* lines 142-143
DirCommitsAfter(dc, files, depth) ==
    [d \in DOMAIN dc \cup TouchedDirs(files, depth) |->
        Get(dc, d, 0) + (IF d \in TouchedDirs(files, depth) THEN 1 ELSE 0)]

\* lines 137-141
DirFilesAfter(df, seen, files, depth) ==
    LET fresh == files \ seen
    IN  [d \in DOMAIN df \cup TouchedDirs(fresh, depth) |->
            Get(df, d, {}) \cup {p \in fresh : TopDir(p, depth) = d}]

(***************************************************************************)
(* parse_git_commits and main, step by step                                *)
(***************************************************************************)

CommitYears == {2020, 2021}
\* the years an entry can hold: a cache file is read as it is (line 65), and
\* may hold a year other than the one line 70 computes for the commit
Years == CommitYears \cup {y - 1 : y \in CommitYears}

NoContributions == [tag \in Range(DISPLAY_TAGS) |-> [y \in Years |-> 0]]
NoMeta == <<0, <<>>, <<>>, <<>>, 0>>

\* load_cache (line 385) and the set-up of parse_git_commits (lines 85-104)
LoadCache ==
    /\ pc = "start"
    /\ pc' = IF load_cache(disk).ok THEN "scan" ELSE "fatal"
    /\ cache' = load_cache(disk).cache
    /\ UNCHANGED <<name, verbosity, dir_depth, commits, disk, disk0, new_cache,
                   idx, meta, contributions, all_years, min_year, email_usage,
                   email_author_counts, dir_commits, dir_files, seen_files,
                   years, cache_updated, out, saves, scanVars, blkVars>>

\* one iteration of the for loop (lines 106-158)
ProcessCommit ==
    /\ pc = "scan"
    /\ idx < Len(commits)
    /\ LET commit == commits[idx + 1]
           md == get_commit_metadata(commit, cache, new_cache)
           e == md.entry
           am == AuthorMatch(name, e.author_name, e.author_email)
           counts == ScanCounts(name, e.message)
           counted == YearCounted(am, commit.parents, counts)
           stats == /\ am
                    /\ ~MergeBranch(am, commit.parents)
                    /\ verbosity >= 2
                    /\ commit.stats_ok
       IN  /\ new_cache' = md.new_cache
           /\ meta' = <<commit.sha, e.author_name, e.author_email, e.message, e.year>>
           /\ contributions' = ContributionsAfter(contributions, am, commit.parents,
                                                  e.year, counts)
           /\ email_usage' =
                IF am THEN Put(email_usage, e.author_email,
                               Get(email_usage, e.author_email, {}) \cup {e.year})
                ELSE email_usage
           /\ email_author_counts' =
                IF am THEN Put(email_author_counts, e.author_email,
                               Get(email_author_counts, e.author_email, 0) + 1)
                ELSE email_author_counts
           /\ dir_commits' = IF stats
                             THEN DirCommitsAfter(dir_commits, commit.files, dir_depth)
                             ELSE dir_commits
           /\ dir_files' = IF stats
                           THEN DirFilesAfter(dir_files, seen_files, commit.files, dir_depth)
                           ELSE dir_files
           /\ seen_files' = IF stats THEN seen_files \cup commit.files ELSE seen_files
           /\ all_years' = IF counted THEN all_years \cup {e.year} ELSE all_years
           /\ min_year' = IF counted THEN MinYearAfter(min_year, e.year) ELSE min_year
    /\ idx' = idx + 1
    /\ UNCHANGED <<pc, name, verbosity, dir_depth, commits, disk, disk0, cache,
                   years, cache_updated, out, saves, scanVars, blkVars>>

\* the end of parse_git_commits (lines 160-167)
EndPass ==
    /\ pc = "scan"
    /\ idx = Len(commits)
    /\ cache' = Update(cache, new_cache)
    /\ years' = Sorted(all_years)
    /\ cache_updated' = (DOMAIN new_cache /= {})
    /\ pc' = "returned"
    /\ UNCHANGED <<name, verbosity, dir_depth, commits, disk, disk0, new_cache,
                   idx, meta, contributions, all_years, min_year, email_usage,
                   email_author_counts, dir_commits, dir_files, seen_files,
                   out, saves, scanVars, blkVars>>

\* lines 401-403
NoneFound ==
    /\ pc = "returned"
    /\ years = <<>>
    /\ out' = "none"
    /\ pc' = "exit"
    /\ UNCHANGED <<name, verbosity, dir_depth, commits, disk, disk0, cache,
                   new_cache, idx, meta, contributions, all_years, min_year,
                   email_usage, email_author_counts, dir_commits, dir_files,
                   seen_files, years, cache_updated, saves, scanVars, blkVars>>

\* max() of an empty sequence raises ValueError: print_email_summary (line 253)
\* at verbosity >= 1, print_top_directories (line 282) at verbosity >= 2
PrintRaises(v, eu, dc, df) ==
    \/ v >= 1 /\ DOMAIN eu = {}
    \/ v >= 2 /\ DOMAIN dc \cup DOMAIN df = {}

\* save_cache called whether or not the cache was extended
AfterReport_Always(updated) == "save"

\* lines 423-424: where main goes after the report
AfterReport(updated) == IF updated THEN "save" ELSE "exit"

\* lines 405-424: the report
Report ==
    /\ pc = "returned"
    /\ years /= <<>>
    /\ out' = "report"
    /\ pc' = IF PrintRaises(verbosity, email_usage, dir_commits, dir_files)
             THEN "crashed"
             ELSE AfterReport(cache_updated)
    /\ UNCHANGED <<name, verbosity, dir_depth, commits, disk, disk0, cache,
                   new_cache, idx, meta, contributions, all_years, min_year,
                   email_usage, email_author_counts, dir_commits, dir_files,
                   seen_files, years, cache_updated, saves, scanVars, blkVars>>

\* what open(path, "w") leaves of the file (line 56)
OpenForWriting(d) == [exists |-> TRUE, content |-> <<>>]

\* save_cache, line 56: open(path, "w")
SaveOpen ==
    /\ pc = "save"
    /\ saves' = saves + 1
    /\ disk' = OpenForWriting(disk)
    /\ pc' = "writing"
    /\ UNCHANGED <<name, verbosity, dir_depth, commits, disk0, cache, new_cache,
                   idx, meta, contributions, all_years, min_year, email_usage,
                   email_author_counts, dir_commits, dir_files, seen_files,
                   years, cache_updated, out, scanVars, blkVars>>

\* save_cache, line 57: json.dump writes the next piece of the text
SaveWrite ==
    /\ pc = "writing"
    /\ Len(disk.content) < Len(json_dump(cache))
    /\ disk' = [disk EXCEPT !.content =
                    Append(@, json_dump(cache)[Len(disk.content) + 1])]
    /\ UNCHANGED <<pc, name, verbosity, dir_depth, commits, disk0, cache,
                   new_cache, idx, meta, contributions, all_years, min_year,
                   email_usage, email_author_counts, dir_commits, dir_files,
                   seen_files, years, cache_updated, out, saves, scanVars, blkVars>>

\* save_cache returns: the with block closes the file
SaveClose ==
    /\ pc = "writing"
    /\ Len(disk.content) = Len(json_dump(cache))
    /\ pc' = "exit"
    /\ UNCHANGED <<name, verbosity, dir_depth, commits, disk, disk0, cache,
                   new_cache, idx, meta, contributions, all_years, min_year,
                   email_usage, email_author_counts, dir_commits, dir_files,
                   seen_files, years, cache_updated, out, saves, scanVars, blkVars>>

\* the process is terminated while save_cache is writing
Kill ==
    /\ pc = "writing"
    /\ pc' = "killed"
    /\ UNCHANGED <<name, verbosity, dir_depth, commits, disk, disk0, cache,
                   new_cache, idx, meta, contributions, all_years, min_year,
                   email_usage, email_author_counts, dir_commits, dir_files,
                   seen_files, years, cache_updated, out, saves, scanVars, blkVars>>

Next ==
    \/ LoadCache
    \/ ProcessCommit
    \/ EndPass
    \/ NoneFound
    \/ Report
    \/ SaveOpen
    \/ SaveWrite
    \/ SaveClose
    \/ Kill

(***************************************************************************)
(* Initial states: the repository, the cache file and the arguments        *)
(***************************************************************************)

MaxCommits == 2

\* the queried identity of the runs
RunName == <<"j">>

Jo == [author |-> <<"J", "o">>, email |-> <<"j", "@", "x">>]
Al == [author |-> <<"A", "l">>, email |-> <<"a", "@", "x">>]

MsgNone == <<"f", "i", "x">>
MsgCc == <<"C", "c", ":", " ", "J", "o">>
MsgTwo == <<"A", "c", "k", "e", "d", "-", "b", "y", ":", " ", "j", "o", "\n",
            "C", "c", ":", " ", "J", "o">>

FileAX == <<"a", "/", "x">>
FileABX == <<"a", "/", "b", "/", "x">>
FileY == <<"y">>

Kind(who, msg, y, np, fs, ok) ==
    [author |-> who.author, email |-> who.email, message |-> msg, year |-> y,
     parents |-> np, files |-> fs, stats_ok |-> ok]

\* the commit lists of at most MaxCommits commits of the given kinds, newest
\* first, the sha standing for the place in the list
WithSha(ks) ==
    [k \in 1..Len(ks) |-> [sha |-> k, author |-> ks[k].author, email |-> ks[k].email,
                           message |-> ks[k].message, year |-> ks[k].year,
                           parents |-> ks[k].parents, files |-> ks[k].files,
                           stats_ok |-> ks[k].stats_ok]]

CommitLists(kinds) ==
    {WithSha(ks) : ks \in UNION {[1..m -> kinds] : m \in 0..MaxCommits}}

\* a cache file an earlier run left: the entries of the commits in S, their
\* year one less when skew
CacheOf(cs, S, skew) ==
    [sha \in S |-> [FreshEntry(cs[sha]) EXCEPT !.year = IF skew THEN @ - 1 ELSE @]]

InitRun(cs, file, v, depth) ==
    /\ pc = "start"
    /\ name = RunName
    /\ verbosity = v
    /\ dir_depth = depth
    /\ commits = cs
    /\ disk = file
    /\ disk0 = file
    /\ cache = EmptyDict
    /\ new_cache = EmptyDict
    /\ idx = 0
    /\ meta = NoMeta
    /\ contributions = NoContributions
    /\ all_years = {}
    /\ min_year = <<>>
    /\ email_usage = EmptyDict
    /\ email_author_counts = EmptyDict
    /\ dir_commits = EmptyDict
    /\ dir_files = EmptyDict
    /\ seen_files = {}
    /\ years = <<>>
    /\ cache_updated = FALSE
    /\ out = ""
    /\ saves = 0

IdleScan == scan_name = RunName /\ scan_msg = <<>> /\ scan_done = TRUE /\ scan_counts = NoCounts
IdleBlock == blk_name = RunName /\ block = <<>> /\ blk_done = TRUE /\ blk_result = NoneResult

\* the commit pass: commits of every author, message, year and parent count
PassKinds ==
    {Kind(who, msg, y, np, {FileAX}, TRUE) :
        who \in {Jo, Al}, msg \in {MsgNone, MsgCc, MsgTwo}, y \in CommitYears,
        np \in {1, 2}}

Init ==
    /\ \E cs \in CommitLists(PassKinds) :
           InitRun(cs, NoFile, 0, 2)
    /\ IdleScan
    /\ IdleBlock

Spec == Init /\ [][Next]_vars

\* the cache: few kinds of commits, every cache file an earlier run can have
\* left (any subset of the commits, their years right or one less)
CacheKinds ==
    {Kind(Jo, MsgNone, 2021, 1, {FileAX}, TRUE),
     Kind(Jo, MsgNone, 2020, 2, {FileAX}, TRUE),
     Kind(Al, MsgNone, 2021, 1, {FileAX}, TRUE),
     Kind(Al, MsgCc, 2020, 1, {FileAX}, TRUE)}

CacheFiles(cs) ==
    {NoFile} \cup {FileOf(CacheOf(cs, S, skew)) : S \in SUBSET DOMAIN cs, skew \in BOOLEAN}

InitCache ==
    /\ \E cs \in CommitLists(CacheKinds) :
       \E file \in CacheFiles(cs) :
       \E v \in {0, 1} :
           InitRun(cs, file, v, 2)
    /\ IdleScan
    /\ IdleBlock

SpecCache == InitCache /\ [][Next]_vars

\* the directory statistics: commits that differ in their changed files and in
\* whether commit.stats can be read
DirKinds ==
    {Kind(Jo, MsgNone, 2021, 1, fs, ok) :
        fs \in {{FileAX}, {FileABX}, {FileAX, FileABX}, {FileY, FileABX}},
        ok \in BOOLEAN}
    \cup {Kind(Jo, MsgNone, 2021, 2, {FileAX}, TRUE),
          Kind(Al, MsgNone, 2021, 1, {FileAX, FileY}, TRUE)}

InitDirs ==
    /\ \E cs \in CommitLists(DirKinds) :
       \E depth \in {1, 2} :
           InitRun(cs, NoFile, 2, depth)
    /\ IdleScan
    /\ IdleBlock

SpecDirs == InitDirs /\ [][Next]_vars

\* the trailer scan on its own: any short message over a small alphabet
MaxMsgLen == 6
ScanAlphabet == {"C", "c", ":", " ", "\n", "j"}
ScanMessages == UNION {[1..n -> ScanAlphabet] : n \in 0..MaxMsgLen}

IdleRun == InitRun(<<>>, NoFile, 0, 2)

InitScan ==
    /\ scan_name \in Identities
    /\ scan_msg \in ScanMessages
    /\ scan_done = FALSE
    /\ scan_counts = NoCounts
    /\ IdleRun
    /\ IdleBlock

SpecScan == InitScan /\ [][ScanTags]_vars

\* process_block on its own: any block of a few lines
MaxBlockLen == 4
LineTitle == <<"T", "h", "e", "r", "m", "a", "l">>
LineMJo == <<"M", ":", "\t", "J", "o", "\n">>
LineMAl == <<"M", ":", "\t", "A", "l", "\n">>
LineRJo == <<"R", ":", "\t", "J", "o", "\n">>
LineRAl == <<"R", ":", "\t", "A", "l", "\n">>
LineF == <<"F", ":", "\t", "a", "/", "\n">>
BlockLines == {LineTitle, LineMJo, LineMAl, LineRJo, LineRAl, LineF}
Blocks == UNION {[1..n -> BlockLines] : n \in 1..MaxBlockLen}

InitBlock ==
    /\ blk_name \in {<<"j">>, <<"J", "o">>}
    /\ block \in Blocks
    /\ blk_done = FALSE
    /\ blk_result = NoneResult
    /\ IdleRun
    /\ IdleScan

SpecBlock == InitBlock /\ [][ProcessBlock]_vars

(***************************************************************************)
(* The properties                                                          *)
(***************************************************************************)

\* the identity occurs in the text, whatever the case of the letters
IdentityIn(nm, text) == In(Lower(nm), Lower(text))

\* the iteration that has just ended was about a commit of the identity
LastByIdentity == IdentityIn(name, meta[2]) \/ IdentityIn(name, meta[3])

Tags == Range(DISPLAY_TAGS)

\* the cache as load_cache gave it at the start of the run
Loaded == load_cache(disk0).cache

\* parse_git_commits has returned
Returned == pc \in {"returned", "save", "writing", "exit", "killed", "crashed"}

\* C1 (merge exclusivity): the iteration over a commit with two or more parents
\* whose author name or email names the identity raises Merges of the commit's
\* year by exactly 1 and changes no other count, whatever the message holds.
C1_MergeExclusivity ==
    [][(/\ idx' = idx + 1
        /\ commits[idx'].parents >= 2
        /\ LastByIdentity')
       => \A tag \in Tags : \A y \in Years :
            contributions'[tag][y] =
                contributions[tag][y] + (IF tag = "Merges" /\ y = meta'[5] THEN 1 ELSE 0)]_vars

\* a merge of the identity whose message has an Acked-by and a Cc trailer naming
\* it has been processed, and only Merges has moved
C1_Witness ==
    /\ idx = 1
    /\ commits[1].parents = 2
    /\ commits[1].message = MsgTwo
    /\ LastByIdentity
    /\ contributions["Merges"][commits[1].year] = 1
    /\ contributions["Cc"][commits[1].year] = 0

\* the commits whose author or trailers name the identity, merges included
NamingCommits ==
    {k \in 1..Len(commits) :
        \/ IdentityIn(name, commits[k].author)
        \/ IdentityIn(name, commits[k].email)
        \/ \E t \in 1..Len(LINUX_TAGS) :
              TagMatches(LINUX_TAGS[t], name, commits[k].message) > 0}

\* C2 (years accounting): once parse_git_commits has returned, years is the
\* sorted set of the years of all commits with an author match or a trailer
\* match, merges of the identity included, and min_year is the smallest of them.
C2_YearsAccounting ==
    Returned =>
        LET ys == {commits[k].year : k \in NamingCommits}
        IN  /\ years = Sorted(ys)
            /\ min_year = (IF ys = {} THEN <<>> ELSE <<Sorted(ys)[1]>>)

\* C3: the iteration over a commit with more than one parent, whoever its
\* author, changes neither Author nor any trailer-tag count.
C3_MergeNeverCounts ==
    [][(idx' = idx + 1 /\ commits[idx'].parents > 1)
       => \A tag \in Tags \ {"Merges"} : \A y \in Years :
            contributions'[tag][y] = contributions[tag][y]]_vars

\* C4: a run whose scan computed a new cache entry has saved the cache when it
\* exits, the run that found no contributions included.
C4_SavedBeforeExit ==
    (pc = "exit" /\ DOMAIN new_cache /= {}) => (saves >= 1 /\ disk = FileOf(cache))

\* the commits that are not in the loaded cache
Missed == {k \in 1..Len(commits) : commits[k].sha \notin DOMAIN Loaded}

\* C5: save_cache is called at most once, only after the whole pass and only if
\* some commit was not in the loaded cache; a run of cache hits only leaves the
\* file as it was; cache_updated is true exactly when new entries were computed.
C5_SaveOnce ==
    /\ saves <= 1
    /\ saves = 1 => /\ idx = Len(commits)
                    /\ pc \in {"writing", "exit", "killed"}
                    /\ Missed /= {}
    /\ (saves = 0 \/ Missed = {}) => disk = disk0
    /\ Returned => /\ cache_updated = (DOMAIN new_cache /= {})
                   /\ cache_updated = (Missed /= {})

\* a run over an older cached commit and a new one has saved once and exited
C5_Witness ==
    /\ pc = "exit"
    /\ saves = 1
    /\ Len(commits) = 2
    /\ DOMAIN Loaded = {2}
    /\ disk = FileOf(cache)

\* C6 (cache monotonicity): every loaded entry stays as it was loaded; a hit
\* returns the cached entry and adds nothing to new_cache; a miss adds the one
\* entry of that commit; the final cache is the loaded cache plus new_cache.
C6_CacheMonotone ==
    /\ pc \notin {"start", "fatal"} =>
          \A sha \in DOMAIN Loaded : sha \in DOMAIN cache /\ cache[sha] = Loaded[sha]
    /\ DOMAIN new_cache = {commits[k].sha : k \in 1..idx} \ DOMAIN Loaded
    /\ \A sha \in DOMAIN new_cache :
          new_cache[sha] = [author_name |-> commits[sha].author,
                            author_email |-> commits[sha].email,
                            message |-> commits[sha].message,
                            year |-> commits[sha].year]
    /\ (idx >= 1 /\ commits[idx].sha \in DOMAIN Loaded) =>
          LET hit == Loaded[commits[idx].sha]
          IN  meta = <<commits[idx].sha, hit.author_name, hit.author_email,
                       hit.message, hit.year>>
    /\ pc = "scan" => cache = Loaded
    /\ Returned =>
          /\ DOMAIN cache = DOMAIN Loaded \cup DOMAIN new_cache
          /\ \A sha \in DOMAIN new_cache : cache[sha] = new_cache[sha]

\* the pass has returned after a hit on an entry whose year differs from the
\* commit's and a miss
C6_Witness ==
    /\ pc = "returned"
    /\ Len(commits) = 2
    /\ DOMAIN Loaded = {2}
    /\ Loaded[2].year /= commits[2].year
    /\ cache[2] = Loaded[2]
    /\ DOMAIN new_cache = {1}
    /\ DOMAIN cache = {1, 2}

\* C7 (interrupted save): when the process is terminated while save_cache
\* writes, the file holds the whole previous content or the whole new content,
\* and load_cache reads it.
C7_InterruptedSave ==
    pc = "killed" => /\ disk = disk0 \/ disk = FileOf(cache)
                     /\ load_cache(disk).ok

\* the directory of a path cut to its first n segments, "." for a path without
\* a directory
SlashesOf(p) == {k \in 1..Len(p) : p[k] = "/"}
TruncatedDir(p, n) ==
    IF SlashesOf(p) = {} THEN <<".">>
    ELSE LET cut == CHOOSE k \in SlashesOf(p) :
                        Cardinality({j \in SlashesOf(p) : j <= k})
                            = Min(n, Cardinality(SlashesOf(p)))
         IN  SubSeq(p, 1, cut - 1)

\* the processed commits of the identity that are no merge
AuthoredPlain ==
    {k \in 1..idx :
        /\ commits[k].parents <= 1
        /\ IdentityIn(name, commits[k].author) \/ IdentityIn(name, commits[k].email)}

\* the directory statistics are those of the commits in good
DirStatsOf(good) ==
    LET paths == UNION {commits[k].files : k \in good}
        dirs == {TruncatedDir(p, dir_depth) : p \in paths}
    IN  /\ \A d \in dirs \cup DOMAIN dir_commits :
              Get(dir_commits, d, 0) =
                  Cardinality({k \in good : \E p \in commits[k].files :
                                                TruncatedDir(p, dir_depth) = d})
        /\ \A p \in paths :
              /\ Cardinality({d \in DOMAIN dir_files : p \in dir_files[d]}) = 1
              /\ p \in Get(dir_files, TruncatedDir(p, dir_depth), {})
        /\ \A d \in DOMAIN dir_files : dir_files[d] \subseteq paths

\* C8 as stated: at verbosity >= 2 each directory's commit counter is the
\* number of non-merge commits of the identity that changed a file under it, and
\* each distinct path is in exactly one directory's file set, once.
C8_DirStatsAllCommits == verbosity >= 2 => DirStatsOf(AuthoredPlain)

\* C8 as amended: the same, of the commits whose commit.stats could be read
C8_DirStats ==
    verbosity >= 2 => DirStatsOf({k \in AuthoredPlain : commits[k].stats_ok})

\* two commits of the identity have changed the same path: the directory's
\* counter is 2 and its file set has one path
C8_Witness ==
    /\ idx = 2
    /\ AuthoredPlain = {1, 2}
    /\ commits[1].files = {FileAX}
    /\ commits[2].files = {FileAX}
    /\ Get(dir_commits, <<"a">>, 0) = 2
    /\ Cardinality(Get(dir_files, <<"a">>, {})) = 1

\* C9 (maintainer role), for the blocks that start with their title line: the
\* block is returned iff an M: or R: line names the identity, with role both
\* when lines of both kinds do, maintainer when only M: lines do, reviewer when
\* only R: lines do.
C9_MaintainerRole ==
    (blk_done /\ block[1] = LineTitle) =>
        LET inM == \E k \in 1..Len(block) :
                       StartsWith(block[k], <<"M", ":">>) /\ IdentityIn(blk_name, block[k])
            inR == \E k \in 1..Len(block) :
                       StartsWith(block[k], <<"R", ":">>) /\ IdentityIn(blk_name, block[k])
        IN  /\ (blk_result.ret = "dict") <=> (inM \/ inR)
            /\ blk_result.ret = "dict" =>
                  blk_result.role = (IF inM /\ inR THEN "both"
                                     ELSE IF inM THEN "maintainer" ELSE "reviewer")

\* the lines of a message: the first and last index of each
LineSpans(m) ==
    {<<b, e>> \in (1..Len(m)) \X (0..Len(m)) :
        /\ b = 1 \/ m[b - 1] = "\n"
        /\ e >= b - 1
        /\ \A k \in b..e : m[k] /= "\n"
        /\ e = Len(m) \/ m[e + 1] = "\n"}

\* the lines that begin with "<Tag>: " (the tag in any case) and name the
\* identity after it
TrailerLines(tag, nm, m) ==
    {sp \in LineSpans(m) :
        LET line == SubSeq(m, sp[1], sp[2])
            prefix == Chars(tag) \o <<":", " ">>
        IN  /\ StartsWith(Lower(line), Lower(prefix))
            /\ IdentityIn(nm, From(line, Len(prefix)))}

\* C10 (trailer scan): the amount added for each tag is the number of lines of
\* the message that begin with "<Tag>: " and name the identity after it; the tag
\* after other characters, or the identity on another line, adds nothing.
C10_TrailerScan ==
    scan_done =>
        \A k \in 1..Len(LINUX_TAGS) :
            scan_counts[k] = Cardinality(TrailerLines(LINUX_TAGS[k], scan_name, scan_msg))

====
